---- MODULE Spec2Model ----
(***************************************************************************)
(* azuread_application_oauth2_permission: the lifecycle of an OAuth2       *)
(* permission that lives inside the oauth2Permissions collection of a      *)
(* parent Application object of the directory service.                     *)
(*                                                                         *)
(* Every process of Procs is one provider goroutine that runs resource     *)
(* operations (Create, Update, Read, Delete) one after another.  A step of *)
(* the model is what happens between two points where a goroutine can be   *)
(* suspended: the acquisition of the named lock and each remote call.      *)
(***************************************************************************)
EXTENDS Integers, Sequences, FiniteSets, TLC

(* ------------------------------ bounds --------------------------------- *)

\* operations the goroutines start, all of them together
MaxOps == 2

\* the most keys the configuration of the users data source lists
MaxKeys == 2

\* the goroutines
Procs == {"A", "B"}

\* object ids of Applications, permission ids, as strings of characters
ObjectIds == {<<"a">>, <<"b">>}
PermissionIds == {<<"x">>, <<"y">>}

\* the payload of a permission (descriptions, display names, type, value)
OldValue == "v0"
NewValue == "v1"

\* tracked ids that do not parse: no delimiter, an empty part
MalformedIds == {<<"a">>, <<"a", "/">>}

(* ------------------------------ values --------------------------------- *)

Nil == "nil"
NoProc == "none"

\* a string attribute that is not set reads as the empty string
Empty == <<>>

\* is_enabled of the configuration: not set, or a boolean
Unset == "unset"
BoolString(b) == IF b THEN "true" ELSE "false"

\* graphrbac.OAuth2Permission
Permission(id, enabled, value) == [ID |-> id, IsEnabled |-> enabled, Value |-> value]

\* a nil *graphrbac.OAuth2Permission
NilPermission == Permission(Empty, FALSE, Nil)

\* graphrbac.Application as the directory holds it, and the 404 of a missing
\* one; DisplayName stands for the fields that are not the oauth2Permissions
Application(coll) == [found |-> TRUE, DisplayName |-> "app", Oauth2Permissions |-> coll]
Missing == [found |-> FALSE, DisplayName |-> "", Oauth2Permissions |-> <<>>]

Ids(coll) == {coll[i].ID : i \in 1..Len(coll)}

SelectIdx(coll, id) == {i \in 1..Len(coll) : coll[i].ID = id}

\* the collections an Application starts with: no repeated id, the old
\* payload, up to two entries; x and y are interchangeable, so x comes first
InitialCollections ==
    {<<>>}
    \cup {<<Permission(<<"x">>, e, OldValue)>> : e \in BOOLEAN}
    \cup {<<Permission(<<"x">>, e, OldValue), Permission(<<"y">>, TRUE, OldValue)>> :
            e \in BOOLEAN}

(* ----------------------- composite identifier -------------------------- *)

Delimiter == "/"

\* graph.OAuth2PermissionIdFrom: the pair as the id of the permission
OAuth2PermissionIdFrom(objectId, permissionId) ==
    [ObjectId |-> objectId, PermissionId |-> permissionId]

NoId == OAuth2PermissionIdFrom(Empty, Empty)

\* OAuth2PermissionId.String: the two parts joined by the delimiter
IdString(id) == id.ObjectId \o <<Delimiter>> \o id.PermissionId

\* the positions of the delimiter in a string
DelimiterAt(s) == {i \in 1..Len(s) : s[i] = Delimiter}

\* graph.ParseOAuth2PermissionId: split at the delimiter; exactly two
\* parts, none of them empty, or an error
ParseOAuth2PermissionId(s) ==
    IF Cardinality(DelimiterAt(s)) # 1
    THEN [err |-> "MalformedIdentifier", id |-> NoId]
    ELSE LET k == CHOOSE i \in DelimiterAt(s) : TRUE
             left == SubSeq(s, 1, k - 1)
             right == SubSeq(s, k + 1, Len(s))
         IN IF left = <<>> \/ right = <<>>
            THEN [err |-> "MalformedIdentifier", id |-> NoId]
            ELSE [err |-> Nil, id |-> OAuth2PermissionIdFrom(left, right)]

\* the ids a tracked resource can carry when Read or Delete is called
TrackedIds ==
    {IdString(OAuth2PermissionIdFrom(o, s)) : o \in ObjectIds, s \in PermissionIds}
    \cup MalformedIds

(* --------------------------- named locks ------------------------------- *)

resourceApplicationName == "azuread_application"
resourcePermissionName == "azuread_application_oauth2_permission"

LockKey(name, key) == <<name, key>>

LockKeys == {LockKey(n, o) : n \in {resourceApplicationName, resourcePermissionName},
                             o \in ObjectIds}

\* tf.LockByName returns once no goroutine holds the mutex of the key
CanLockByName(held, name, key) == held[LockKey(name, key)] = NoProc

\* tf.LockByName: the mutex of the key, held by the caller
LockByName(held, name, key, p) == [held EXCEPT ![LockKey(name, key)] = p]

\* tf.UnlockByName: the mutex of the key, free
UnlockByName(held, name, key) == [held EXCEPT ![LockKey(name, key)] = NoProc]

(* ------------------------ collection reconciler ------------------------ *)

\* graph.OAuth2PermissionFindById: the entry of that id, or nil
OAuth2PermissionFindById(coll, permissionId) ==
    IF SelectIdx(coll, permissionId) = {} THEN NilPermission
    ELSE coll[CHOOSE i \in SelectIdx(coll, permissionId) :
                 \A j \in SelectIdx(coll, permissionId) : i <= j]

\* graph.OAuth2PermissionAdd: AlreadyExists, or the candidate appended
OAuth2PermissionAdd(coll, permission) ==
    IF permission.ID \in Ids(coll)
    THEN [err |-> "AlreadyExists", coll |-> <<>>]
    ELSE [err |-> Nil, coll |-> Append(coll, permission)]

\* graph.OAuth2PermissionUpdate: NotFound, or the entry replaced in place
OAuth2PermissionUpdate(coll, permission) ==
    IF permission.ID \notin Ids(coll)
    THEN [err |-> "NotFound", coll |-> <<>>]
    ELSE [err |-> Nil,
          coll |-> [i \in 1..Len(coll) |->
                      IF coll[i].ID = permission.ID THEN permission ELSE coll[i]]]

\* graph.OAuth2PermissionResultDisableById: NotFound, or the entry disabled
OAuth2PermissionResultDisableById(coll, permissionId) ==
    IF permissionId \notin Ids(coll)
    THEN [err |-> "NotFound", coll |-> <<>>]
    ELSE [err |-> Nil,
          coll |-> [i \in 1..Len(coll) |->
                      IF coll[i].ID = permissionId
                      THEN [coll[i] EXCEPT !.IsEnabled = FALSE] ELSE coll[i]]]

\* graph.OAuth2PermissionResultRemoveById: the collection without the entry
OAuth2PermissionResultRemoveById(coll, permissionId) ==
    [err |-> Nil, coll |-> SelectSeq(coll, LAMBDA e : e.ID # permissionId)]

(* ------------------------------- state --------------------------------- *)

VARIABLES
    remote,          \* the directory: object id -> oauth2Permissions, or Missing
    locks,           \* the mutexes of tf.LockByName: key -> the goroutine holding it
    pc,              \* where each goroutine stands
    op,              \* the operation it runs: create, update, read, delete
    d,               \* its schema.ResourceData: the configuration and the tracked id
    id,              \* its OAuth2PermissionId
    app,             \* the oauth2Permissions of the Application it fetched
    newPermissions,  \* the collection it is about to patch
    err,             \* what its operation returned
    deferred,        \* its deferred tf.UnlockByName, run when the operation returns
    trace,           \* the lock and remote calls of its current operation, in order
    nops,            \* the operations started so far
    userspc,         \* where usersDataRead stands
    query,           \* its schema.ResourceData: the keys asked for, ignore_missing
    users,           \* the users it has collected
    expectedCount,   \* the number of keys it was asked for
    lookups,         \* what the directory answered to each lookup, in order
    result           \* what usersDataRead returned: the error, the users set

resourceVars ==
    <<remote, locks, pc, op, d, id, app, newPermissions, err, deferred, trace, nops>>

usersVars == <<userspc, query, users, expectedCount, lookups, result>>

vars == <<resourceVars, usersVars>>

\* the ResourceData and the return of a usersDataRead that has not run
NoQuery == [kind |-> "", keys |-> <<>>, ignore_missing |-> FALSE]
NoResult == [err |-> Nil, users |-> <<>>]

UsersInit ==
    /\ userspc = "idle"
    /\ query = NoQuery
    /\ users = <<>>
    /\ expectedCount = 0
    /\ lookups = <<>>
    /\ result = NoResult

\* Application a exists and holds any initial collection, Application b is
\* missing
InitialRemotes ==
    {[o \in ObjectIds |-> IF o = <<"a">> THEN Application(c) ELSE Missing] :
        c \in InitialCollections}

NoData == [application_object_id |-> Empty, permission_id |-> Empty, is_enabled |-> Unset,
           value |-> Nil, Id |-> Empty, IsNewResource |-> FALSE]

Init ==
    /\ remote \in InitialRemotes
    /\ locks = [k \in LockKeys |-> NoProc]
    /\ pc = [p \in Procs |-> "idle"]
    /\ op = [p \in Procs |-> Nil]
    /\ d = [p \in Procs |-> NoData]
    /\ id = [p \in Procs |-> NoId]
    /\ app = [p \in Procs |-> <<>>]
    /\ newPermissions = [p \in Procs |-> <<>>]
    /\ err = [p \in Procs |-> Nil]
    /\ deferred = [p \in Procs |-> <<>>]
    /\ trace = [p \in Procs |-> <<>>]
    /\ nops = 0
    /\ UsersInit

(* ------------------------------ helpers -------------------------------- *)

\* uuid.GenerateUUID: an id, or an error
GenerateUUID ==
    {[err |-> Nil, uuid |-> g] : g \in PermissionIds} \cup {[err |-> "error", uuid |-> Empty]}

\* GetIsEnabled without the schema's default: an unset bool reads as false
GetIsEnabledNoDefault(data) == data.is_enabled = "true"

\* d.Get("is_enabled"): the schema's default is true
GetIsEnabled(data) == IF data.is_enabled = Unset THEN TRUE ELSE data.is_enabled = "true"

\* the graphrbac.OAuth2Permission built from the configuration
PermissionOf(data, permissionId) == Permission(permissionId, GetIsEnabled(data), data.value)

\* whether the goroutine holds the lock of the Application it works on
HoldsLock(p, objectId) == locks[LockKey(resourceApplicationName, objectId)] = p

\* a lock or remote call, as the trace records it
Event(p, ev, at, ok, objectId) ==
    [ev |-> ev, at |-> at, ok |-> ok, held |-> HoldsLock(p, objectId)]

\* a goroutine is free to start its next operation
CanStart(p) == pc[p] \in {"idle", "done"} /\ nops < MaxOps

\* the entry of a new operation: everything of the last one is forgotten
Begin(p, kind, data) ==
    /\ op' = [op EXCEPT ![p] = kind]
    /\ d' = [d EXCEPT ![p] = data]
    /\ app' = [app EXCEPT ![p] = <<>>]
    /\ newPermissions' = [newPermissions EXCEPT ![p] = <<>>]
    /\ deferred' = [deferred EXCEPT ![p] = <<>>]
    /\ nops' = nops + 1

\* Return with the unlock written out before the final return alone, not
\* deferred: a return with an error leaves the mutex held
ReturnUnlockOnSuccess(p, e, tr) ==
    /\ pc' = [pc EXCEPT ![p] = "done"]
    /\ err' = [err EXCEPT ![p] = e]
    /\ id' = [id EXCEPT ![p] = NoId]
    /\ app' = [app EXCEPT ![p] = <<>>]
    /\ newPermissions' = [newPermissions EXCEPT ![p] = <<>>]
    /\ IF deferred[p] = <<>> \/ e # Nil
       THEN /\ locks' = locks
            /\ trace' = [trace EXCEPT ![p] = tr]
       ELSE /\ locks' = UnlockByName(locks, deferred[p][1], deferred[p][2])
            /\ trace' = [trace EXCEPT ![p] =
                            Append(tr, [ev |-> "unlock", at |-> 0, ok |-> TRUE, held |-> TRUE])]
    /\ deferred' = [deferred EXCEPT ![p] = <<>>]

\* the operation returns e: the deferred tf.UnlockByName runs, the locals of
\* the function are gone
Return(p, e, tr) ==
    /\ pc' = [pc EXCEPT ![p] = "done"]
    /\ err' = [err EXCEPT ![p] = e]
    /\ id' = [id EXCEPT ![p] = NoId]
    /\ app' = [app EXCEPT ![p] = <<>>]
    /\ newPermissions' = [newPermissions EXCEPT ![p] = <<>>]
    /\ IF deferred[p] = <<>>
       THEN /\ locks' = locks
            /\ trace' = [trace EXCEPT ![p] = tr]
       ELSE /\ locks' = UnlockByName(locks, deferred[p][1], deferred[p][2])
            /\ trace' = [trace EXCEPT ![p] =
                            Append(tr, [ev |-> "unlock", at |-> 0, ok |-> TRUE, held |-> TRUE])]
    /\ deferred' = [deferred EXCEPT ![p] = <<>>]

(* --------------------------- Create, Update ---------------------------- *)

\* applicationOAuth2PermissionResourceCreateUpdate as Create, up to the lock:
\* the permission id of the configuration, or else a generated one
StartCreate(p) ==
    /\ CanStart(p)
    /\ \E o \in ObjectIds, en \in {Unset, "false"}, cfg \in PermissionIds \cup {Empty} :
        \E pid \in IF cfg = Empty THEN GenerateUUID ELSE {[err |-> Nil, uuid |-> cfg]} :
            /\ Begin(p, "create",
                     [application_object_id |-> o, permission_id |-> cfg, is_enabled |-> en,
                      value |-> NewValue, Id |-> Empty, IsNewResource |-> TRUE])
            /\ IF pid.err # Nil
               THEN /\ pc' = [pc EXCEPT ![p] = "done"]
                    /\ err' = [err EXCEPT ![p] = "GenerateFailed"]
                    /\ id' = [id EXCEPT ![p] = NoId]
               ELSE /\ pc' = [pc EXCEPT ![p] = "cu_lock"]
                    /\ err' = [err EXCEPT ![p] = Nil]
                    /\ id' = [id EXCEPT ![p] = OAuth2PermissionIdFrom(o, pid.uuid)]
    /\ trace' = [trace EXCEPT ![p] = <<>>]
    /\ UNCHANGED <<remote, locks>>
    /\ UNCHANGED usersVars

\* applicationOAuth2PermissionResourceCreateUpdate as Update, up to the lock:
\* the resource is tracked, its permission id is the one of the state
StartUpdate(p) ==
    /\ CanStart(p)
    /\ \E o \in ObjectIds, en \in {Unset, "false"}, pid \in PermissionIds :
            /\ Begin(p, "update",
                     [application_object_id |-> o, permission_id |-> pid, is_enabled |-> en,
                      value |-> NewValue,
                      Id |-> IdString(OAuth2PermissionIdFrom(o, pid)),
                      IsNewResource |-> FALSE])
            /\ id' = [id EXCEPT ![p] = OAuth2PermissionIdFrom(o, pid)]
    /\ pc' = [pc EXCEPT ![p] = "cu_lock"]
    /\ err' = [err EXCEPT ![p] = Nil]
    /\ trace' = [trace EXCEPT ![p] = <<>>]
    /\ UNCHANGED <<remote, locks>>
    /\ UNCHANGED usersVars

\* CreateUpdateLockName as the name of the permission resource, not of its
\* parent
CreateUpdateLockNameOwn == resourcePermissionName

\* the lock key of Create and Update
CreateUpdateLockName == resourceApplicationName

\* CreateUpdateLock without the lock: the goroutine goes on to the fetch
CreateUpdateNoLock(p) ==
    /\ pc[p] = "cu_lock"
    /\ pc' = [pc EXCEPT ![p] = "cu_get"]
    /\ UNCHANGED <<remote, locks, op, d, id, app, newPermissions, err, deferred, trace, nops>>
    /\ UNCHANGED usersVars

\* CreateUpdateLock on one mutex for all Applications: the key is left out
CreateUpdateLockAllApplications(p) ==
    /\ pc[p] = "cu_lock"
    /\ \A o \in ObjectIds : CanLockByName(locks, CreateUpdateLockName, o)
    /\ locks' = LockByName(locks, CreateUpdateLockName, id[p].ObjectId, p)
    /\ deferred' = [deferred EXCEPT ![p] = <<CreateUpdateLockName, id[p].ObjectId>>]
    /\ trace' = [trace EXCEPT ![p] =
                    Append(@, [ev |-> "lock", at |-> 127, ok |-> TRUE, held |-> TRUE])]
    /\ pc' = [pc EXCEPT ![p] = "cu_get"]
    /\ UNCHANGED <<remote, op, d, id, app, newPermissions, err, nops>>
    /\ UNCHANGED usersVars

\* tf.LockByName(resourceApplicationName, id.ObjectId), its unlock deferred
CreateUpdateLock(p) ==
    /\ pc[p] = "cu_lock"
    /\ CanLockByName(locks, CreateUpdateLockName, id[p].ObjectId)
    /\ locks' = LockByName(locks, CreateUpdateLockName, id[p].ObjectId, p)
    /\ deferred' = [deferred EXCEPT ![p] = <<CreateUpdateLockName, id[p].ObjectId>>]
    /\ trace' = [trace EXCEPT ![p] =
                    Append(@, [ev |-> "lock", at |-> 127, ok |-> TRUE, held |-> TRUE])]
    /\ pc' = [pc EXCEPT ![p] = "cu_get"]
    /\ UNCHANGED <<remote, op, d, id, app, newPermissions, err, nops>>
    /\ UNCHANGED usersVars

\* CreateUpdateReconcile without the d.IsNewResource branch: always an add
CreateUpdateReconcileAdd(data, fetched, pid) ==
    LET r == OAuth2PermissionAdd(fetched, PermissionOf(data, pid))
    IN IF r.err = "AlreadyExists" THEN [err |-> "ImportAsExists", coll |-> <<>>]
       ELSE IF r.err # Nil THEN [err |-> "AddFailed", coll |-> <<>>]
       ELSE r

\* CreateUpdateReconcile that answers AlreadyExists by replacing the entry
CreateUpdateReconcileOverwrite(data, fetched, pid) ==
    IF OAuth2PermissionFindById(fetched, pid) = NilPermission
    THEN IF data.IsNewResource
         THEN OAuth2PermissionAdd(fetched, PermissionOf(data, pid))
         ELSE [err |-> "PermissionNotFound", coll |-> <<>>]
    ELSE OAuth2PermissionUpdate(fetched, PermissionOf(data, pid))

\* CreateUpdateReconcile that appends the new permission whatever the
\* collection holds
CreateUpdateReconcileAppend(data, fetched, pid) ==
    IF data.IsNewResource
    THEN [err |-> Nil, coll |-> Append(fetched, PermissionOf(data, pid))]
    ELSE IF OAuth2PermissionFindById(fetched, pid) = NilPermission
         THEN [err |-> "PermissionNotFound", coll |-> <<>>]
         ELSE LET r == OAuth2PermissionUpdate(fetched, PermissionOf(data, pid))
              IN IF r.err # Nil THEN [err |-> "UpdateFailed", coll |-> <<>>] ELSE r

\* the reconciliation of Create and Update: what to patch, or the error
CreateUpdateReconcile(data, fetched, pid) ==
    IF data.IsNewResource
    THEN LET r == OAuth2PermissionAdd(fetched, PermissionOf(data, pid))
         IN IF r.err = "AlreadyExists" THEN [err |-> "ImportAsExists", coll |-> <<>>]
            ELSE IF r.err # Nil THEN [err |-> "AddFailed", coll |-> <<>>]
            ELSE r
    ELSE IF OAuth2PermissionFindById(fetched, pid) = NilPermission
         THEN [err |-> "PermissionNotFound", coll |-> <<>>]
         ELSE LET r == OAuth2PermissionUpdate(fetched, PermissionOf(data, pid))
              IN IF r.err # Nil THEN [err |-> "UpdateFailed", coll |-> <<>>] ELSE r

\* CreateUpdateGet that skips a missing Application as Delete does: nil
CreateUpdateGetSkipMissing(p) ==
    /\ pc[p] = "cu_get"
    /\ LET o == id[p].ObjectId
       IN \E failed \in BOOLEAN :
            LET tr == Append(trace[p], Event(p, "get", 131, ~failed /\ remote[o].found, o))
                r == CreateUpdateReconcile(d[p], remote[o].Oauth2Permissions,
                                           id[p].PermissionId)
            IN IF ~remote[o].found THEN Return(p, Nil, tr)
               ELSE IF failed THEN Return(p, "GetFailed", tr)
               ELSE IF r.err # Nil THEN Return(p, r.err, tr)
               ELSE /\ app' = [app EXCEPT ![p] = remote[o].Oauth2Permissions]
                    /\ newPermissions' = [newPermissions EXCEPT ![p] = r.coll]
                    /\ pc' = [pc EXCEPT ![p] = "cu_patch"]
                    /\ trace' = [trace EXCEPT ![p] = tr]
                    /\ UNCHANGED <<locks, err, deferred, id>>
    /\ UNCHANGED <<remote, op, d, nops>>
    /\ UNCHANGED usersVars

\* client.Get of the Application, then the reconciliation of the collection
CreateUpdateGet(p) ==
    /\ pc[p] = "cu_get"
    /\ LET o == id[p].ObjectId
       IN \E failed \in BOOLEAN :
            LET tr == Append(trace[p], Event(p, "get", 131, ~failed /\ remote[o].found, o))
                r == CreateUpdateReconcile(d[p], remote[o].Oauth2Permissions,
                                           id[p].PermissionId)
            IN IF ~remote[o].found THEN Return(p, "ParentNotFound", tr)
               ELSE IF failed THEN Return(p, "GetFailed", tr)
               ELSE IF r.err # Nil THEN Return(p, r.err, tr)
               ELSE /\ app' = [app EXCEPT ![p] = remote[o].Oauth2Permissions]
                    /\ newPermissions' = [newPermissions EXCEPT ![p] = r.coll]
                    /\ pc' = [pc EXCEPT ![p] = "cu_patch"]
                    /\ trace' = [trace EXCEPT ![p] = tr]
                    /\ UNCHANGED <<locks, err, deferred, id>>
    /\ UNCHANGED <<remote, op, d, nops>>
    /\ UNCHANGED usersVars

\* CreateUpdatePatch with the unlock written out before Read is called
CreateUpdatePatchUnlockEarly(p) ==
    /\ pc[p] = "cu_patch"
    /\ LET o == id[p].ObjectId
       IN \E failed \in BOOLEAN :
            LET tr == Append(trace[p], Event(p, "patch", 163, ~failed, o))
            IN IF failed
               THEN /\ Return(p, "PatchFailed", tr)
                    /\ UNCHANGED <<remote, d>>
               ELSE /\ remote' = [remote EXCEPT ![o].Oauth2Permissions = newPermissions[p]]
                    /\ d' = [d EXCEPT ![p].Id = IdString(id[p])]
                    /\ locks' = UnlockByName(locks, deferred[p][1], deferred[p][2])
                    /\ deferred' = [deferred EXCEPT ![p] = <<>>]
                    /\ pc' = [pc EXCEPT ![p] = "r_get"]
                    /\ trace' = [trace EXCEPT ![p] =
                           Append(tr, [ev |-> "unlock", at |-> 0, ok |-> TRUE, held |-> TRUE])]
                    /\ UNCHANGED <<err, id, app, newPermissions>>
    /\ UNCHANGED <<op, nops>>
    /\ UNCHANGED usersVars

\* CreateUpdatePatch with d.SetId ahead of client.Patch
CreateUpdatePatchSetIdFirst(p) ==
    /\ pc[p] = "cu_patch"
    /\ LET o == id[p].ObjectId
       IN \E failed \in BOOLEAN :
            LET tr == Append(trace[p], Event(p, "patch", 163, ~failed, o))
            IN /\ d' = [d EXCEPT ![p].Id = IdString(id[p])]
               /\ IF failed
                  THEN /\ Return(p, "PatchFailed", tr)
                       /\ UNCHANGED remote
                  ELSE /\ remote' = [remote EXCEPT ![o].Oauth2Permissions = newPermissions[p]]
                       /\ pc' = [pc EXCEPT ![p] = "r_get"]
                       /\ trace' = [trace EXCEPT ![p] = tr]
                       /\ UNCHANGED <<locks, err, deferred, id, app, newPermissions>>
    /\ UNCHANGED <<op, nops>>
    /\ UNCHANGED usersVars

\* CreateUpdatePatch with d.SetId(*permission.ID): the permission id alone
CreateUpdatePatchSetPermissionId(p) ==
    /\ pc[p] = "cu_patch"
    /\ LET o == id[p].ObjectId
       IN \E failed \in BOOLEAN :
            LET tr == Append(trace[p], Event(p, "patch", 163, ~failed, o))
                parsed == ParseOAuth2PermissionId(id[p].PermissionId)
            IN IF failed
               THEN /\ Return(p, "PatchFailed", tr)
                    /\ UNCHANGED <<remote, d>>
               ELSE /\ remote' = [remote EXCEPT ![o].Oauth2Permissions = newPermissions[p]]
                    /\ d' = [d EXCEPT ![p].Id = id[p].PermissionId]
                    /\ IF parsed.err # Nil
                       THEN Return(p, "ParseFailed", tr)
                       ELSE /\ id' = [id EXCEPT ![p] = parsed.id]
                            /\ pc' = [pc EXCEPT ![p] = "r_get"]
                            /\ trace' = [trace EXCEPT ![p] = tr]
                            /\ UNCHANGED <<locks, err, deferred, app, newPermissions>>
    /\ UNCHANGED <<op, nops>>
    /\ UNCHANGED usersVars

\* CreateUpdatePatch that patches the one permission, not the collection
CreateUpdatePatchOnlyPermission(p) ==
    /\ pc[p] = "cu_patch"
    /\ LET o == id[p].ObjectId
       IN \E failed \in BOOLEAN :
            LET tr == Append(trace[p], Event(p, "patch", 163, ~failed, o))
                parsed == ParseOAuth2PermissionId(IdString(id[p]))
            IN IF failed
               THEN /\ Return(p, "PatchFailed", tr)
                    /\ UNCHANGED <<remote, d>>
               ELSE /\ remote' = [remote EXCEPT ![o].Oauth2Permissions =
                                     <<PermissionOf(d[p], id[p].PermissionId)>>]
                    /\ d' = [d EXCEPT ![p].Id = IdString(id[p])]
                    /\ IF parsed.err # Nil
                       THEN Return(p, "ParseFailed", tr)
                       ELSE /\ id' = [id EXCEPT ![p] = parsed.id]
                            /\ pc' = [pc EXCEPT ![p] = "r_get"]
                            /\ trace' = [trace EXCEPT ![p] = tr]
                            /\ UNCHANGED <<locks, err, deferred, app, newPermissions>>
    /\ UNCHANGED <<op, nops>>
    /\ UNCHANGED usersVars

\* CreateUpdatePatch that sends the whole Application, its other fields at
\* their zero values
CreateUpdatePatchWholeApplication(p) ==
    /\ pc[p] = "cu_patch"
    /\ LET o == id[p].ObjectId
       IN \E failed \in BOOLEAN :
            LET tr == Append(trace[p], Event(p, "patch", 163, ~failed, o))
                parsed == ParseOAuth2PermissionId(IdString(id[p]))
            IN IF failed
               THEN /\ Return(p, "PatchFailed", tr)
                    /\ UNCHANGED <<remote, d>>
               ELSE /\ remote' = [remote EXCEPT ![o] =
                                     [found |-> TRUE, DisplayName |-> "",
                                      Oauth2Permissions |-> newPermissions[p]]]
                    /\ d' = [d EXCEPT ![p].Id = IdString(id[p])]
                    /\ IF parsed.err # Nil
                       THEN Return(p, "ParseFailed", tr)
                       ELSE /\ id' = [id EXCEPT ![p] = parsed.id]
                            /\ pc' = [pc EXCEPT ![p] = "r_get"]
                            /\ trace' = [trace EXCEPT ![p] = tr]
                            /\ UNCHANGED <<locks, err, deferred, app, newPermissions>>
    /\ UNCHANGED <<op, nops>>
    /\ UNCHANGED usersVars

\* client.Patch of the new collection, d.SetId, and the entry of Read
CreateUpdatePatch(p) ==
    /\ pc[p] = "cu_patch"
    /\ LET o == id[p].ObjectId
       IN \E failed \in BOOLEAN :
            LET tr == Append(trace[p], Event(p, "patch", 163, ~failed, o))
                parsed == ParseOAuth2PermissionId(IdString(id[p]))
            IN IF failed
               THEN /\ Return(p, "PatchFailed", tr)
                    /\ UNCHANGED <<remote, d>>
               ELSE /\ remote' = [remote EXCEPT ![o].Oauth2Permissions = newPermissions[p]]
                    /\ d' = [d EXCEPT ![p].Id = IdString(id[p])]
                    /\ IF parsed.err # Nil
                       THEN Return(p, "ParseFailed", tr)
                       ELSE /\ id' = [id EXCEPT ![p] = parsed.id]
                            /\ pc' = [pc EXCEPT ![p] = "r_get"]
                            /\ trace' = [trace EXCEPT ![p] = tr]
                            /\ UNCHANGED <<locks, err, deferred, app, newPermissions>>
    /\ UNCHANGED <<op, nops>>
    /\ UNCHANGED usersVars

(* -------------------------------- Read --------------------------------- *)

\* applicationOAuth2PermissionResourceRead, up to its remote call
StartRead(p) ==
    /\ CanStart(p)
    /\ \E tracked \in TrackedIds :
        LET parsed == ParseOAuth2PermissionId(tracked)
        IN /\ Begin(p, "read", [NoData EXCEPT !.Id = tracked])
           /\ id' = [id EXCEPT ![p] = parsed.id]
           /\ IF parsed.err # Nil
              THEN /\ pc' = [pc EXCEPT ![p] = "done"]
                   /\ err' = [err EXCEPT ![p] = "ParseFailed"]
              ELSE /\ pc' = [pc EXCEPT ![p] = "r_get"]
                   /\ err' = [err EXCEPT ![p] = Nil]
    /\ trace' = [trace EXCEPT ![p] = <<>>]
    /\ UNCHANGED <<remote, locks>>
    /\ UNCHANGED usersVars

\* ReadGet that reports a permission it does not find as an error
ReadGetErrorOnAbsent(p) ==
    /\ pc[p] = "r_get"
    /\ LET o == id[p].ObjectId
       IN \E failed \in BOOLEAN :
            LET tr == Append(trace[p], Event(p, "get", 182, ~failed /\ remote[o].found, o))
                permission == OAuth2PermissionFindById(remote[o].Oauth2Permissions,
                                                       id[p].PermissionId)
            IN IF ~remote[o].found
               THEN /\ d' = [d EXCEPT ![p].Id = Empty]
                    /\ Return(p, Nil, tr)
               ELSE IF failed
               THEN /\ Return(p, "GetFailed", tr)
                    /\ UNCHANGED d
               ELSE IF permission = NilPermission
               THEN /\ Return(p, "PermissionNotFound", tr)
                    /\ UNCHANGED d
               ELSE /\ d' = [d EXCEPT ![p].application_object_id = o,
                                      ![p].permission_id = id[p].PermissionId,
                                      ![p].is_enabled = BoolString(permission.IsEnabled),
                                      ![p].value = permission.Value]
                    /\ Return(p, Nil, tr)
    /\ UNCHANGED <<remote, op, nops>>
    /\ UNCHANGED usersVars

\* ReadGet behind a tf.LockByName of its own on the Application
ReadGetRelock(p) ==
    /\ pc[p] = "r_get"
    /\ CanLockByName(locks, resourceApplicationName, id[p].ObjectId)
    /\ LET o == id[p].ObjectId
       IN \E failed \in BOOLEAN :
            LET tr == Append(trace[p], Event(p, "get", 182, ~failed /\ remote[o].found, o))
                permission == OAuth2PermissionFindById(remote[o].Oauth2Permissions,
                                                       id[p].PermissionId)
            IN IF ~remote[o].found
               THEN /\ d' = [d EXCEPT ![p].Id = Empty]
                    /\ Return(p, Nil, tr)
               ELSE IF failed
               THEN /\ Return(p, "GetFailed", tr)
                    /\ UNCHANGED d
               ELSE IF permission = NilPermission
               THEN /\ d' = [d EXCEPT ![p].Id = Empty]
                    /\ Return(p, Nil, tr)
               ELSE /\ d' = [d EXCEPT ![p].application_object_id = o,
                                      ![p].permission_id = id[p].PermissionId,
                                      ![p].is_enabled = BoolString(permission.IsEnabled),
                                      ![p].value = permission.Value]
                    /\ Return(p, Nil, tr)
    /\ UNCHANGED <<remote, op, nops>>
    /\ UNCHANGED usersVars

\* client.Get of the Application and the permission looked up in it; called
\* by the framework, or at the end of Create and Update
ReadGet(p) ==
    /\ pc[p] = "r_get"
    /\ LET o == id[p].ObjectId
       IN \E failed \in BOOLEAN :
            LET tr == Append(trace[p], Event(p, "get", 182, ~failed /\ remote[o].found, o))
                permission == OAuth2PermissionFindById(remote[o].Oauth2Permissions,
                                                       id[p].PermissionId)
            IN IF ~remote[o].found
               THEN /\ d' = [d EXCEPT ![p].Id = Empty]
                    /\ Return(p, Nil, tr)
               ELSE IF failed
               THEN /\ Return(p, "GetFailed", tr)
                    /\ UNCHANGED d
               ELSE IF permission = NilPermission
               THEN /\ d' = [d EXCEPT ![p].Id = Empty]
                    /\ Return(p, Nil, tr)
               ELSE /\ d' = [d EXCEPT ![p].application_object_id = o,
                                      ![p].permission_id = id[p].PermissionId,
                                      ![p].is_enabled = BoolString(permission.IsEnabled),
                                      ![p].value = permission.Value]
                    /\ Return(p, Nil, tr)
    /\ UNCHANGED <<remote, op, nops>>
    /\ UNCHANGED usersVars

(* ------------------------------ Importer ------------------------------- *)

\* the Importer's check of the id handed to an import: it parses, or the
\* import is refused with the error of the parse
Importer(p) ==
    /\ CanStart(p)
    /\ \E tracked \in TrackedIds :
        LET parsed == ParseOAuth2PermissionId(tracked)
        IN /\ Begin(p, "import", [NoData EXCEPT !.Id = tracked])
           /\ err' = [err EXCEPT ![p] = parsed.err]
    /\ id' = [id EXCEPT ![p] = NoId]
    /\ pc' = [pc EXCEPT ![p] = "done"]
    /\ trace' = [trace EXCEPT ![p] = <<>>]
    /\ UNCHANGED <<remote, locks>>
    /\ UNCHANGED usersVars

(* ------------------------------- Delete -------------------------------- *)

\* StartDelete that goes on to the lock whatever the parse says
StartDeleteNoParse(p) ==
    /\ CanStart(p)
    /\ \E tracked \in TrackedIds :
        /\ Begin(p, "delete", [NoData EXCEPT !.Id = tracked])
        /\ id' = [id EXCEPT ![p] = ParseOAuth2PermissionId(tracked).id]
    /\ pc' = [pc EXCEPT ![p] = "d_lock"]
    /\ err' = [err EXCEPT ![p] = Nil]
    /\ trace' = [trace EXCEPT ![p] = <<>>]
    /\ UNCHANGED <<remote, locks>>
    /\ UNCHANGED usersVars

\* applicationOAuth2PermissionResourceDelete, up to the lock
StartDelete(p) ==
    /\ CanStart(p)
    /\ \E tracked \in TrackedIds :
        LET parsed == ParseOAuth2PermissionId(tracked)
        IN /\ Begin(p, "delete", [NoData EXCEPT !.Id = tracked])
           /\ id' = [id EXCEPT ![p] = parsed.id]
           /\ IF parsed.err # Nil
              THEN /\ pc' = [pc EXCEPT ![p] = "done"]
                   /\ err' = [err EXCEPT ![p] = "ParseFailed"]
              ELSE /\ pc' = [pc EXCEPT ![p] = "d_lock"]
                   /\ err' = [err EXCEPT ![p] = Nil]
    /\ trace' = [trace EXCEPT ![p] = <<>>]
    /\ UNCHANGED <<remote, locks>>
    /\ UNCHANGED usersVars

\* DeleteLockName as the name of the permission resource, not of its parent
DeleteLockNameOwn == resourcePermissionName

\* the lock key of Delete
DeleteLockName == resourceApplicationName

\* DeleteLock without the lock: the goroutine goes on to the fetch
DeleteNoLock(p) ==
    /\ pc[p] = "d_lock"
    /\ pc' = [pc EXCEPT ![p] = "d_get"]
    /\ UNCHANGED <<remote, locks, op, d, id, app, newPermissions, err, deferred, trace, nops>>
    /\ UNCHANGED usersVars

\* tf.LockByName(resourceApplicationName, id.ObjectId), its unlock deferred
DeleteLock(p) ==
    /\ pc[p] = "d_lock"
    /\ CanLockByName(locks, DeleteLockName, id[p].ObjectId)
    /\ locks' = LockByName(locks, DeleteLockName, id[p].ObjectId, p)
    /\ deferred' = [deferred EXCEPT ![p] = <<DeleteLockName, id[p].ObjectId>>]
    /\ trace' = [trace EXCEPT ![p] =
                    Append(@, [ev |-> "lock", at |-> 226, ok |-> TRUE, held |-> TRUE])]
    /\ pc' = [pc EXCEPT ![p] = "d_get"]
    /\ UNCHANGED <<remote, op, d, id, app, newPermissions, err, nops>>
    /\ UNCHANGED usersVars

\* DeleteGet that flips IsEnabled of the permission where it should clear it
DeleteGetToggle(p) ==
    /\ pc[p] = "d_get"
    /\ LET o == id[p].ObjectId
           fetched == remote[o].Oauth2Permissions
       IN \E failed \in BOOLEAN :
            LET tr == Append(trace[p], Event(p, "get", 230, ~failed /\ remote[o].found, o))
                toggled == [i \in 1..Len(fetched) |->
                              IF fetched[i].ID = id[p].PermissionId
                              THEN [fetched[i] EXCEPT !.IsEnabled = ~@] ELSE fetched[i]]
            IN IF ~remote[o].found THEN Return(p, Nil, tr)
               ELSE IF failed THEN Return(p, "GetFailed", tr)
               ELSE IF id[p].PermissionId \notin Ids(fetched)
               THEN Return(p, "DisableFailed", tr)
               ELSE /\ app' = [app EXCEPT ![p] = fetched]
                    /\ newPermissions' = [newPermissions EXCEPT ![p] = toggled]
                    /\ pc' = [pc EXCEPT ![p] = "d_disable"]
                    /\ trace' = [trace EXCEPT ![p] = tr]
                    /\ UNCHANGED <<locks, err, deferred, id>>
    /\ UNCHANGED <<remote, op, d, nops>>
    /\ UNCHANGED usersVars

\* DeleteGet that reports a missing Application as Create and Update do
DeleteGetErrorOnMissing(p) ==
    /\ pc[p] = "d_get"
    /\ LET o == id[p].ObjectId
       IN \E failed \in BOOLEAN :
            LET tr == Append(trace[p], Event(p, "get", 230, ~failed /\ remote[o].found, o))
                r == OAuth2PermissionResultDisableById(remote[o].Oauth2Permissions,
                                                       id[p].PermissionId)
            IN IF ~remote[o].found THEN Return(p, "ParentNotFound", tr)
               ELSE IF failed THEN Return(p, "GetFailed", tr)
               ELSE IF r.err # Nil THEN Return(p, "DisableFailed", tr)
               ELSE /\ app' = [app EXCEPT ![p] = remote[o].Oauth2Permissions]
                    /\ newPermissions' = [newPermissions EXCEPT ![p] = r.coll]
                    /\ pc' = [pc EXCEPT ![p] = "d_disable"]
                    /\ trace' = [trace EXCEPT ![p] = tr]
                    /\ UNCHANGED <<locks, err, deferred, id>>
    /\ UNCHANGED <<remote, op, d, nops>>
    /\ UNCHANGED usersVars

\* client.Get of the Application, then the permission disabled in the
\* fetched collection
DeleteGet(p) ==
    /\ pc[p] = "d_get"
    /\ LET o == id[p].ObjectId
       IN \E failed \in BOOLEAN :
            LET tr == Append(trace[p], Event(p, "get", 230, ~failed /\ remote[o].found, o))
                r == OAuth2PermissionResultDisableById(remote[o].Oauth2Permissions,
                                                       id[p].PermissionId)
            IN IF ~remote[o].found THEN Return(p, Nil, tr)
               ELSE IF failed THEN Return(p, "GetFailed", tr)
               ELSE IF r.err # Nil THEN Return(p, "DisableFailed", tr)
               ELSE /\ app' = [app EXCEPT ![p] = remote[o].Oauth2Permissions]
                    /\ newPermissions' = [newPermissions EXCEPT ![p] = r.coll]
                    /\ pc' = [pc EXCEPT ![p] = "d_disable"]
                    /\ trace' = [trace EXCEPT ![p] = tr]
                    /\ UNCHANGED <<locks, err, deferred, id>>
    /\ UNCHANGED <<remote, op, d, nops>>
    /\ UNCHANGED usersVars

\* DeleteDisablePatch with the error of the patch dropped: the removal follows
\* whether or not the permission was disabled
DeleteDisablePatchIgnoreError(p) ==
    /\ pc[p] = "d_disable"
    /\ LET o == id[p].ObjectId
       IN \E failed \in BOOLEAN :
            LET tr == Append(trace[p], Event(p, "patch", 251, ~failed, o))
                r == OAuth2PermissionResultRemoveById(app[p], id[p].PermissionId)
            IN /\ remote' = IF failed THEN remote
                            ELSE [remote EXCEPT ![o].Oauth2Permissions = newPermissions[p]]
               /\ newPermissions' = [newPermissions EXCEPT ![p] = r.coll]
               /\ pc' = [pc EXCEPT ![p] = "d_remove"]
               /\ trace' = [trace EXCEPT ![p] = tr]
               /\ UNCHANGED <<locks, err, deferred, id, app>>
    /\ UNCHANGED <<op, d, nops>>
    /\ UNCHANGED usersVars

\* DeleteDisablePatch with the mutex released once the permission is disabled
DeleteDisablePatchUnlock(p) ==
    /\ pc[p] = "d_disable"
    /\ LET o == id[p].ObjectId
       IN \E failed \in BOOLEAN :
            LET tr == Append(trace[p], Event(p, "patch", 251, ~failed, o))
                r == OAuth2PermissionResultRemoveById(app[p], id[p].PermissionId)
            IN IF failed
               THEN /\ Return(p, "PatchFailed", tr)
                    /\ UNCHANGED remote
               ELSE /\ remote' = [remote EXCEPT ![o].Oauth2Permissions = newPermissions[p]]
                    /\ newPermissions' = [newPermissions EXCEPT ![p] = r.coll]
                    /\ pc' = [pc EXCEPT ![p] = "d_remove"]
                    /\ locks' = UnlockByName(locks, deferred[p][1], deferred[p][2])
                    /\ deferred' = [deferred EXCEPT ![p] = <<>>]
                    /\ trace' = [trace EXCEPT ![p] =
                           Append(tr, [ev |-> "unlock", at |-> 0, ok |-> TRUE, held |-> TRUE])]
                    /\ UNCHANGED <<err, id, app>>
    /\ UNCHANGED <<op, d, nops>>
    /\ UNCHANGED usersVars

\* DeleteDisablePatch that returns once the permission is disabled
DeleteDisablePatchOnly(p) ==
    /\ pc[p] = "d_disable"
    /\ LET o == id[p].ObjectId
       IN \E failed \in BOOLEAN :
            LET tr == Append(trace[p], Event(p, "patch", 251, ~failed, o))
            IN IF failed
               THEN /\ Return(p, "PatchFailed", tr)
                    /\ UNCHANGED remote
               ELSE /\ remote' = [remote EXCEPT ![o].Oauth2Permissions = newPermissions[p]]
                    /\ Return(p, Nil, tr)
    /\ UNCHANGED <<op, d, nops>>
    /\ UNCHANGED usersVars

\* client.Patch of the collection with the permission disabled, then the
\* permission removed from the collection fetched before
DeleteDisablePatch(p) ==
    /\ pc[p] = "d_disable"
    /\ LET o == id[p].ObjectId
       IN \E failed \in BOOLEAN :
            LET tr == Append(trace[p], Event(p, "patch", 251, ~failed, o))
                r == OAuth2PermissionResultRemoveById(app[p], id[p].PermissionId)
            IN IF failed
               THEN /\ Return(p, "PatchFailed", tr)
                    /\ UNCHANGED remote
               ELSE /\ remote' = [remote EXCEPT ![o].Oauth2Permissions = newPermissions[p]]
                    /\ IF r.err # Nil
                       THEN Return(p, "RemoveFailed", tr)
                       ELSE /\ newPermissions' = [newPermissions EXCEPT ![p] = r.coll]
                            /\ pc' = [pc EXCEPT ![p] = "d_remove"]
                            /\ trace' = [trace EXCEPT ![p] = tr]
                            /\ UNCHANGED <<locks, err, deferred, id, app>>
    /\ UNCHANGED <<op, d, nops>>
    /\ UNCHANGED usersVars

\* DeleteRemovePatch that answers a failed patch by writing back what it
\* fetched
DeleteRemovePatchRollback(p) ==
    /\ pc[p] = "d_remove"
    /\ LET o == id[p].ObjectId
       IN \E failed \in BOOLEAN :
            LET tr == Append(trace[p], Event(p, "patch", 264, ~failed, o))
            IN IF failed
               THEN /\ remote' = [remote EXCEPT ![o].Oauth2Permissions = app[p]]
                    /\ Return(p, "PatchFailed", tr)
               ELSE /\ remote' = [remote EXCEPT ![o].Oauth2Permissions = newPermissions[p]]
                    /\ Return(p, Nil, tr)
    /\ UNCHANGED <<op, d, nops>>
    /\ UNCHANGED usersVars

\* client.Patch of the collection without the permission
DeleteRemovePatch(p) ==
    /\ pc[p] = "d_remove"
    /\ LET o == id[p].ObjectId
       IN \E failed \in BOOLEAN :
            LET tr == Append(trace[p], Event(p, "patch", 264, ~failed, o))
            IN IF failed
               THEN /\ Return(p, "PatchFailed", tr)
                    /\ UNCHANGED remote
               ELSE /\ remote' = [remote EXCEPT ![o].Oauth2Permissions = newPermissions[p]]
                    /\ Return(p, Nil, tr)
    /\ UNCHANGED <<op, d, nops>>
    /\ UNCHANGED usersVars

(* -------------------------- users data source -------------------------- *)

\* the three lists of the schema, exactly one of which is configured
Kinds == {"object_ids", "mail_nicknames", "user_principal_names"}

\* the lists of keys a configuration can hold, repeated keys among them
Keys == {"k1", "k2"}
KeyLists == UNION {[1..n -> Keys] : n \in 0..MaxKeys}

\* what a lookup can answer: an error, an empty list, or a models.User, whose
\* ID and UserPrincipalName are pointers and can be nil
User(key, hasId) == [found |-> "user", key |-> key, hasId |-> hasId]
LookupError == [found |-> "error", key |-> "", hasId |-> FALSE]
NoUser == [found |-> "none", key |-> "", hasId |-> FALSE]

\* client.Get answers an object id with a user or an error; client.List
\* answers a filter with a list, of which the first user is taken
Outcomes(kind, key) ==
    {LookupError, User(key, TRUE), User(key, FALSE)}
    \cup IF kind = "object_ids" THEN {} ELSE {NoUser}

\* usersDataRead, up to its first lookup
usersDataRead ==
    /\ userspc = "idle"
    /\ \E kind \in Kinds, keys \in KeyLists, ignoreMissing \in BOOLEAN :
        /\ query' = [kind |-> kind, keys |-> keys, ignore_missing |-> ignoreMissing]
        /\ expectedCount' = Len(keys)
        /\ userspc' = IF Len(keys) > 0 THEN "lookup" ELSE "check"
    /\ users' = <<>>
    /\ lookups' = <<>>
    /\ result' = NoResult
    /\ UNCHANGED resourceVars

\* usersDataReadLookup for which ignore_missing covers the errors of a lookup
\* alone: an empty list is an error whatever the flag says
usersDataReadLookupErrorsOnly ==
    /\ userspc = "lookup"
    /\ LET key == query.keys[Len(lookups) + 1]
           next == IF Len(lookups) + 1 = Len(query.keys) THEN "check" ELSE "lookup"
       IN \E r \in Outcomes(query.kind, key) :
            /\ lookups' = Append(lookups, r)
            /\ IF r.found = "error" /\ ~query.ignore_missing
               THEN /\ result' = [err |-> "LookupFailed", users |-> <<>>]
                    /\ userspc' = "done"
                    /\ UNCHANGED users
               ELSE IF r.found = "none"
               THEN /\ result' = [err |-> "NoUserFound", users |-> <<>>]
                    /\ userspc' = "done"
                    /\ UNCHANGED users
               ELSE /\ users' = IF r.found = "user" THEN Append(users, r) ELSE users
                    /\ userspc' = next
                    /\ UNCHANGED result
    /\ UNCHANGED <<query, expectedCount>>
    /\ UNCHANGED resourceVars

\* one turn of the loop over the keys: the lookup of the next key, an error
\* or an empty list skipped with ignore_missing and returned without it
usersDataReadLookup ==
    /\ userspc = "lookup"
    /\ LET key == query.keys[Len(lookups) + 1]
           next == IF Len(lookups) + 1 = Len(query.keys) THEN "check" ELSE "lookup"
       IN \E r \in Outcomes(query.kind, key) :
            /\ lookups' = Append(lookups, r)
            /\ IF r.found = "user"
               THEN /\ users' = Append(users, r)
                    /\ userspc' = next
                    /\ UNCHANGED result
               ELSE IF query.ignore_missing
               THEN /\ userspc' = next
                    /\ UNCHANGED <<users, result>>
               ELSE /\ result' = [err |-> IF r.found = "error" THEN "LookupFailed"
                                                             ELSE "NoUserFound",
                                  users |-> <<>>]
                    /\ userspc' = "done"
                    /\ UNCHANGED users
    /\ UNCHANGED <<query, expectedCount>>
    /\ UNCHANGED resourceVars

\* the check of the count, the check of the users and the d.Set of the lists
usersDataReadSet ==
    /\ userspc = "check"
    /\ result' =
          IF ~query.ignore_missing /\ Len(users) # expectedCount
          THEN [err |-> "UnexpectedCount", users |-> <<>>]
          ELSE IF \E i \in 1..Len(users) : ~users[i].hasId
          THEN [err |-> "NullIdOrUpn", users |-> <<>>]
          ELSE [err |-> Nil, users |-> users]
    /\ userspc' = "done"
    /\ UNCHANGED <<query, users, expectedCount, lookups>>
    /\ UNCHANGED resourceVars

(* ---------------------------- specification ---------------------------- *)

Next ==
    \E p \in Procs :
        \/ StartCreate(p)
        \/ StartUpdate(p)
        \/ CreateUpdateLock(p)
        \/ CreateUpdateGet(p)
        \/ CreateUpdatePatch(p)
        \/ StartRead(p)
        \/ ReadGet(p)
        \/ Importer(p)
        \/ StartDelete(p)
        \/ DeleteLock(p)
        \/ DeleteGet(p)
        \/ DeleteDisablePatch(p)
        \/ DeleteRemovePatch(p)

Spec == Init /\ [][Next]_vars

\* the operations that remove nothing: Create, Update and Read
NextNoDelete ==
    \E p \in Procs :
        \/ StartCreate(p)
        \/ StartUpdate(p)
        \/ CreateUpdateLock(p)
        \/ CreateUpdateGet(p)
        \/ CreateUpdatePatch(p)
        \/ StartRead(p)
        \/ ReadGet(p)
        \/ Importer(p)

SpecNoDelete == Init /\ [][NextNoDelete]_vars

\* both Applications exist: a holds nothing, b holds nothing or permission x
InitTwoApplications ==
    /\ remote \in {[o \in ObjectIds |-> IF o = <<"a">> THEN Application(<<>>)
                                                      ELSE Application(c)] :
                      c \in {<<>>, <<Permission(<<"x">>, TRUE, OldValue)>>}}
    /\ locks = [k \in LockKeys |-> NoProc]
    /\ pc = [p \in Procs |-> "idle"]
    /\ op = [p \in Procs |-> Nil]
    /\ d = [p \in Procs |-> NoData]
    /\ id = [p \in Procs |-> NoId]
    /\ app = [p \in Procs |-> <<>>]
    /\ newPermissions = [p \in Procs |-> <<>>]
    /\ err = [p \in Procs |-> Nil]
    /\ deferred = [p \in Procs |-> <<>>]
    /\ trace = [p \in Procs |-> <<>>]
    /\ nops = 0
    /\ UsersInit

SpecTwoApplications == InitTwoApplications /\ [][Next]_vars

\* the step of a goroutine that waits for its lock, and its step once it
\* has passed the lock: at most one of them is enabled at a time
LockStep(p) == CreateUpdateLock(p) \/ DeleteLock(p)
CallStep(p) ==
    \/ CreateUpdateGet(p)
    \/ CreateUpdatePatch(p)
    \/ ReadGet(p)
    \/ DeleteGet(p)
    \/ DeleteDisablePatch(p)
    \/ DeleteRemovePatch(p)

\* every remote call returns, and a goroutine that can take its lock again
\* and again does take it; nothing obliges the framework to start operations
Fairness ==
    \A p \in Procs : SF_vars(LockStep(p)) /\ WF_vars(CallStep(p))

\* Application a holds permission x, enabled; Application b is missing
InitOnePermission ==
    /\ remote = [o \in ObjectIds |->
                    IF o = <<"a">> THEN Application(<<Permission(<<"x">>, TRUE, OldValue)>>)
                                   ELSE Missing]
    /\ locks = [k \in LockKeys |-> NoProc]
    /\ pc = [p \in Procs |-> "idle"]
    /\ op = [p \in Procs |-> Nil]
    /\ d = [p \in Procs |-> NoData]
    /\ id = [p \in Procs |-> NoId]
    /\ app = [p \in Procs |-> <<>>]
    /\ newPermissions = [p \in Procs |-> <<>>]
    /\ err = [p \in Procs |-> Nil]
    /\ deferred = [p \in Procs |-> <<>>]
    /\ trace = [p \in Procs |-> <<>>]
    /\ nops = 0
    /\ UsersInit

SpecFair == InitOnePermission /\ [][Next]_vars /\ Fairness

\* the users data source alone
NextUsers ==
    \/ usersDataRead
    \/ usersDataReadLookup
    \/ usersDataReadSet

SpecUsers == InitOnePermission /\ [][NextUsers]_vars

(* ------------------------------ properties ----------------------------- *)

\* the collection of an Application in the directory
Remote(o) == remote[o].Oauth2Permissions

\* the positions of the events of a kind in a trace, the patches of a line
Events(tr, ev) == {i \in 1..Len(tr) : tr[i].ev = ev}
PatchesAt(tr, at) == {i \in 1..Len(tr) : tr[i].ev = "patch" /\ tr[i].at = at}
RemoteCalls(tr) == Events(tr, "get") \cup Events(tr, "patch")

\* the goroutine is between its tf.LockByName and its return
InBody(p) ==
    \/ pc[p] \in {"cu_get", "cu_patch", "d_get", "d_disable", "d_remove"}
    \/ pc[p] = "r_get" /\ op[p] \in {"create", "update"}

\* the goroutine has returned from a Create that succeeded
Created(p) == op[p] = "create" /\ pc[p] = "done" /\ err[p] = Nil /\ d[p].Id # Empty

TrackedId(p) == ParseOAuth2PermissionId(d[p].Id).id

\* the entry of that id is in the collection and is disabled
Disabled(coll, permissionId) ==
    \E i \in 1..Len(coll) : coll[i].ID = permissionId /\ ~coll[i].IsEnabled

\* C1: two Creates on one Application, of different permissions, that have
\* both returned with success: the collection of the Application holds both
\* permissions, however the two were interleaved.
C1_NoLostUpdate ==
    \A p, q \in Procs :
        (/\ p # q
         /\ Created(p) /\ Created(q)
         /\ TrackedId(p).ObjectId = TrackedId(q).ObjectId
         /\ TrackedId(p).PermissionId # TrackedId(q).PermissionId)
        => {TrackedId(p).PermissionId, TrackedId(q).PermissionId}
              \subseteq Ids(Remote(TrackedId(p).ObjectId))

C1_Witness ==
    \E p, q \in Procs :
        /\ p # q
        /\ Created(p) /\ Created(q)
        /\ TrackedId(p).ObjectId = TrackedId(q).ObjectId
        /\ TrackedId(p).PermissionId # TrackedId(q).PermissionId
        /\ Events(trace[q], "lock") # {}
        /\ Len(Remote(TrackedId(p).ObjectId)) >= 2

\* C2: at most one Create, Update or Delete of an Application is between its
\* lock and its return, and each of them holds the mutex named by the
\* Application resource and the object id.
C2_MutualExclusion ==
    \A p, q \in Procs :
        /\ InBody(p) => HoldsLock(p, id[p].ObjectId)
        /\ (p # q /\ InBody(p) /\ InBody(q)) => id[p].ObjectId # id[q].ObjectId

C2_Witness ==
    \E p, q \in Procs :
        /\ InBody(p) /\ op[p] = "delete"
        /\ pc[q] = "cu_lock"
        /\ id[p].ObjectId = id[q].ObjectId

\* C3: in a Delete, the patch that removes the permission comes after a
\* patch that disabled it and succeeded; once the disabling patch has
\* failed, no removing patch follows.
C3_DisableBeforeRemove ==
    \A p \in Procs :
        /\ \A i \in PatchesAt(trace[p], 264) :
              \E j \in PatchesAt(trace[p], 251) : j < i /\ trace[p][j].ok
        /\ \A j \in PatchesAt(trace[p], 251) :
              ~trace[p][j].ok => \A i \in PatchesAt(trace[p], 264) : i < j
        /\ pc[p] = "d_remove" => \E j \in PatchesAt(trace[p], 251) : trace[p][j].ok

C3_Witness ==
    \E p \in Procs :
        /\ pc[p] = "done"
        /\ \E i \in PatchesAt(trace[p], 264) : trace[p][i].ok

\* C4, as claimed: between the disabling patch and the removing patch of a
\* Delete the mutex is released and taken again, and the Application is
\* fetched again.
C4_TwoCycles ==
    \A p \in Procs :
        \A i \in PatchesAt(trace[p], 264) :
            \E j \in PatchesAt(trace[p], 251), u \in Events(trace[p], "unlock"),
               l \in Events(trace[p], "lock"), g \in Events(trace[p], "get") :
                j < u /\ u < l /\ l < g /\ g < i

\* C4, amended: a Delete disables and removes with two patches under one
\* acquisition of the mutex and from one fetch; when it is about to remove,
\* it still holds the mutex, and the collection in the directory is the one
\* it fetched with the permission disabled: nothing was committed between.
C4_OneCycle ==
    \A p \in Procs :
        pc[p] = "d_remove" =>
            /\ HoldsLock(p, id[p].ObjectId)
            /\ Cardinality(Events(trace[p], "lock")) = 1
            /\ Cardinality(Events(trace[p], "get")) = 1
            /\ Events(trace[p], "unlock") = {}
            /\ Remote(id[p].ObjectId)
                 = OAuth2PermissionResultDisableById(app[p], id[p].PermissionId).coll

C4_Witness ==
    \E p, q \in Procs :
        /\ pc[p] = "d_remove"
        /\ pc[q] = "cu_lock"
        /\ id[q].ObjectId = id[p].ObjectId

\* C5, as claimed: every fetch and every patch of any operation, Read
\* included, is made by a goroutine that holds the mutex of the Application.
C5_AllUnderLock ==
    \A p \in Procs :
        \A i \in RemoteCalls(trace[p]) : trace[p][i].held

\* C5, amended: every patch, and every fetch of a Create, an Update or a
\* Delete (the fetch of the Read that Create and Update end with included),
\* is made while the goroutine holds the mutex of the Application; the Read
\* the framework calls fetches without any lock, and patches nothing.
C5_MutationsUnderLock ==
    \A p \in Procs :
        \A i \in RemoteCalls(trace[p]) :
            IF op[p] = "read"
            THEN trace[p][i].ev = "get" /\ ~trace[p][i].held
            ELSE trace[p][i].held

C5_Witness ==
    \E p, q \in Procs :
        /\ op[p] = "read" /\ pc[p] = "done" /\ Events(trace[p], "get") # {}
        /\ op[q] = "create" /\ pc[q] = "done" /\ Cardinality(Events(trace[q], "get")) = 2

\* C6: a Create, Update or Delete that waits for the mutex has made no
\* remote call; the first thing it does is to take the mutex; every patch
\* comes after a fetch that succeeded under the same acquisition, and the
\* collection it is about to patch is computed from that fetch.
C6_LockThenFetch ==
    \A p \in Procs :
        /\ pc[p] \in {"cu_lock", "d_lock"} => trace[p] = <<>>
        /\ (op[p] \in {"create", "update", "delete"} /\ trace[p] # <<>>)
              => trace[p][1].ev = "lock"
        /\ \A i \in Events(trace[p], "patch") :
              /\ trace[p][i].held
              /\ \E g \in Events(trace[p], "get") : g < i /\ trace[p][g].ok /\ trace[p][g].held
              /\ \A u \in Events(trace[p], "unlock") : i < u
        /\ pc[p] = "cu_patch" =>
              newPermissions[p]
                = CreateUpdateReconcile(d[p], app[p], id[p].PermissionId).coll
        /\ pc[p] = "d_disable" =>
              newPermissions[p]
                = OAuth2PermissionResultDisableById(app[p], id[p].PermissionId).coll
        /\ pc[p] = "d_remove" =>
              newPermissions[p]
                = OAuth2PermissionResultRemoveById(app[p], id[p].PermissionId).coll

C6_Witness ==
    \E p, q \in Procs :
        /\ pc[p] = "d_lock" /\ trace[p] = <<>>
        /\ op[q] = "update" /\ pc[q] = "r_get" /\ id[q].ObjectId = id[p].ObjectId
        /\ \E i \in PatchesAt(trace[q], 163) : trace[q][i].ok

\* C7: a Create, Update or Delete that has returned, with success or with
\* any error, holds no mutex.
C7_LockReleased ==
    \A p \in Procs :
        pc[p] \in {"idle", "done"} => \A k \in LockKeys : locks[k] # p

C7_Witness ==
    \E p \in Procs :
        /\ pc[p] = "done"
        /\ err[p] = "PatchFailed"
        /\ Events(trace[p], "lock") # {}
        /\ \A k \in LockKeys : locks[k] = NoProc

\* C8: a Delete of a permission that is in the collection and is disabled
\* already (a Delete before it disabled it and did not remove it) is stopped
\* by nothing but a remote call that fails, and when it returns with success
\* the permission is not in the collection.
C8_DeleteRetry ==
    [][\A p \in Procs :
          (/\ op[p] = "delete"
           /\ pc[p] \in {"d_get", "d_disable", "d_remove"}
           /\ pc'[p] # pc[p]
           /\ Disabled(Remote(id[p].ObjectId), id[p].PermissionId))
          => /\ err'[p] \in {Nil, "GetFailed", "PatchFailed"}
             /\ (pc'[p] = "done" /\ err'[p] = Nil)
                   => /\ pc[p] = "d_remove"
                      /\ id[p].PermissionId \notin Ids(remote'[id[p].ObjectId].Oauth2Permissions)
      ]_vars

C8_Witness ==
    \E p \in Procs :
        /\ pc[p] = "d_remove"
        /\ Disabled(app[p], id[p].PermissionId)

\* C9, as claimed: a Delete of a permission that is not in the collection of
\* an Application that exists returns with success.
C9_DeleteIdempotent ==
    [][\A p \in Procs :
          (/\ pc[p] = "d_get"
           /\ pc'[p] = "done"
           /\ remote[id[p].ObjectId].found
           /\ id[p].PermissionId \notin Ids(Remote(id[p].ObjectId))
           /\ trace'[p][2].ok)
          => err'[p] = Nil
      ]_vars

\* C10: an Update of a permission that is not in the fetched collection
\* returns the error that says so, patches nothing and leaves the directory
\* as it was.
C10_UpdateNotFound ==
    [][\A p \in Procs :
          (/\ op[p] = "update"
           /\ pc[p] = "cu_get"
           /\ pc'[p] # "cu_get"
           /\ remote[id[p].ObjectId].found
           /\ id[p].PermissionId \notin Ids(Remote(id[p].ObjectId)))
          => /\ pc'[p] = "done"
             /\ err'[p] \in {"PermissionNotFound", "GetFailed"}
             /\ trace'[p][2].ok => err'[p] = "PermissionNotFound"
             /\ Events(trace'[p], "patch") = {}
             /\ remote' = remote
      ]_vars

C10_Witness ==
    \E p \in Procs :
        /\ op[p] = "update" /\ pc[p] = "done" /\ err[p] = "PermissionNotFound"
        /\ Events(trace[p], "patch") = {}
        /\ Events(trace[p], "unlock") # {}

\* the last remote call of the trace of an operation that returned
LastCall(tr) == tr[CHOOSE i \in RemoteCalls(tr) : \A j \in RemoteCalls(tr) : j <= i]

\* C11: a Create of a permission id that the fetched collection holds
\* already returns the import-as-exists error, patches nothing, leaves the
\* directory as it was (the entry is not overwritten) and sets no tracked id.
C11_CreateExists ==
    [][\A p \in Procs :
          (/\ op[p] = "create"
           /\ pc[p] = "cu_get"
           /\ pc'[p] # "cu_get"
           /\ remote[id[p].ObjectId].found
           /\ id[p].PermissionId \in Ids(Remote(id[p].ObjectId)))
          => /\ pc'[p] = "done"
             /\ err'[p] \in {"ImportAsExists", "GetFailed"}
             /\ trace'[p][2].ok => err'[p] = "ImportAsExists"
             /\ Events(trace'[p], "patch") = {}
             /\ remote' = remote
             /\ d'[p].Id = Empty
      ]_vars

C11_Witness ==
    \E p \in Procs :
        /\ op[p] = "create" /\ pc[p] = "done" /\ err[p] = "ImportAsExists"
        /\ d[p].Id = Empty
        /\ Events(trace[p], "patch") = {}
        /\ Len(Remote(d[p].application_object_id)) >= 1

\* C12, as claimed: when the fetch finds no Application, Create, Update and
\* Delete alike return the parent-not-found error, with nothing reconciled
\* and nothing patched.
C12_ParentNotFound ==
    [][\A p \in Procs :
          (/\ pc[p] \in {"cu_get", "d_get"}
           /\ pc'[p] # pc[p]
           /\ ~remote[id[p].ObjectId].found)
          => /\ pc'[p] = "done"
             /\ err'[p] = "ParentNotFound"
             /\ newPermissions'[p] = <<>>
             /\ Events(trace'[p], "patch") = {}
             /\ remote' = remote
      ]_vars

\* C12, amended: when the fetch finds no Application, Create and Update
\* return the parent-not-found error and Delete returns nil; none of them
\* reconciles or patches anything.
C12_ParentMissing ==
    [][\A p \in Procs :
          (/\ pc[p] \in {"cu_get", "d_get"}
           /\ pc'[p] # pc[p]
           /\ ~remote[id[p].ObjectId].found)
          => /\ pc'[p] = "done"
             /\ err'[p] = IF op[p] = "delete" THEN Nil ELSE "ParentNotFound"
             /\ newPermissions'[p] = <<>>
             /\ Events(trace'[p], "patch") = {}
             /\ remote' = remote
      ]_vars

C12_Witness ==
    \E p, q \in Procs :
        /\ op[p] = "delete" /\ pc[p] = "done" /\ err[p] = Nil
        /\ Events(trace[p], "get") # {} /\ ~LastCall(trace[p]).ok
        /\ op[q] \in {"create", "update"} /\ pc[q] = "done" /\ err[q] = "ParentNotFound"

\* C13: when the patch of a Create or an Update fails, the operation returns
\* the error of the patch, the directory is as the last patch that went well
\* left it, no other write follows, and the tracked id is what it was (for a
\* Create: not set).
C13_PatchFailed ==
    [][\A p \in Procs :
          (/\ pc[p] = "cu_patch"
           /\ pc'[p] # "cu_patch"
           /\ ~trace'[p][3].ok)
          => /\ pc'[p] = "done"
             /\ err'[p] = "PatchFailed"
             /\ remote' = remote
             /\ Cardinality(Events(trace'[p], "patch")) = 1
             /\ d'[p].Id = d[p].Id
             /\ op[p] = "create" => d'[p].Id = Empty
      ]_vars

C13_Witness ==
    \E p \in Procs :
        /\ op[p] = "create" /\ pc[p] = "done" /\ err[p] = "PatchFailed"
        /\ d[p].Id = Empty
        /\ Cardinality(Events(trace[p], "patch")) = 1

\* what the patch that the goroutine is about to issue makes of a collection
Reconciled(p, coll) ==
    CASE pc[p] = "cu_patch" -> CreateUpdateReconcile(d[p], coll, id[p].PermissionId).coll
      [] pc[p] = "d_disable" -> OAuth2PermissionResultDisableById(coll, id[p].PermissionId).coll
      [] pc[p] = "d_remove" -> OAuth2PermissionResultRemoveById(coll, id[p].PermissionId).coll

\* C14: Creates, Updates and Deletes of one Application are serialized: every
\* change of its collection is the patch of a goroutine that took the lock
\* and is alone between lock and return, and the new collection is that
\* operation's reconciliation applied to the collection as the writes before
\* it left it. The collection at the end is therefore the reconciliations
\* applied one after another in the order the lock was taken.
C14_Serializable ==
    [][\A o \in ObjectIds :
          remote'[o] # remote[o]
          => \E p \in Procs :
                /\ pc[p] \in {"cu_patch", "d_disable", "d_remove"}
                /\ pc'[p] # pc[p]
                /\ id[p].ObjectId = o
                /\ trace[p][1].ev = "lock"
                /\ \A q \in Procs \ {p} : ~(InBody(q) /\ id[q].ObjectId = o)
                /\ remote'[o].Oauth2Permissions = Reconciled(p, Remote(o))
      ]_vars

C14_Witness ==
    \E p, q \in Procs :
        /\ op[p] = "create" /\ pc[p] = "r_get"
        /\ pc[q] = "d_lock" /\ id[q].ObjectId = id[p].ObjectId
        /\ nops = MaxOps
        /\ Remote(id[p].ObjectId) = Append(app[p], PermissionOf(d[p], id[p].PermissionId))

\* C15: at all times the permission ids of the collection of an Application
\* are pairwise different.
C15_UniqueIds ==
    \A o \in ObjectIds :
        \A i, j \in 1..Len(Remote(o)) :
            Remote(o)[i].ID = Remote(o)[j].ID => i = j

C15_Witness ==
    \E p, q \in Procs :
        /\ Created(p)
        /\ op[q] = "create" /\ pc[q] = "done" /\ err[q] = "ImportAsExists"
        /\ d[q].application_object_id = d[p].application_object_id
        /\ Len(Remote(d[p].application_object_id)) = 2

\* C16: a Read of a permission id that the collection of an existing
\* Application does not hold returns nil, clears the tracked id and writes
\* nothing.
C16_ReadAbsent ==
    [][\A p \in Procs :
          (/\ op[p] = "read"
           /\ pc[p] = "r_get"
           /\ pc'[p] # "r_get"
           /\ remote[id[p].ObjectId].found
           /\ id[p].PermissionId \notin Ids(Remote(id[p].ObjectId))
           /\ trace'[p][1].ok)
          => /\ pc'[p] = "done"
             /\ err'[p] = Nil
             /\ d'[p].Id = Empty
             /\ Events(trace'[p], "patch") = {}
             /\ remote' = remote
             /\ locks' = locks
      ]_vars

C16_Witness ==
    \E p \in Procs :
        /\ op[p] = "read" /\ pc[p] = "done" /\ err[p] = Nil
        /\ d[p].Id = Empty
        /\ trace[p] # <<>> /\ trace[p][1].ev = "get" /\ trace[p][1].ok
        /\ Events(trace[p], "patch") = {}

\* ids as the schema validates them: not empty, no delimiter in them
IdChars == {"a", "b", "x", "y"}
ValidIds == {<<c>> : c \in IdChars} \cup {<<c, e>> : c, e \in IdChars}

\* parse after format gives back the pair; a law of the two functions alone,
\* the same in every state, so it is evaluated in the initial states
RoundTripLaw ==
    \A o, s \in ValidIds :
        ParseOAuth2PermissionId(IdString(OAuth2PermissionIdFrom(o, s)))
            = [err |-> Nil, id |-> OAuth2PermissionIdFrom(o, s)]

ShortStrings ==
    LET chars == {"a", Delimiter}
    IN {<<>>} \cup {<<c>> : c \in chars} \cup {<<c, e>> : c, e \in chars}
       \cup {<<c, e, f>> : c, e, f \in chars}

MalformedStrings ==
    {s \in ShortStrings :
        \/ DelimiterAt(s) = {}
        \/ \E k \in DelimiterAt(s) :
              \/ k = 1
              \/ k = Len(s)
              \/ k + 1 \in DelimiterAt(s)}

\* C18: a string with no delimiter or with an empty part does not parse;
\* a Read, a Delete or an import called with a tracked id that does not
\* parse has returned an error, with no lock taken, nothing fetched and
\* nothing patched.
C18_Malformed ==
    /\ \A s \in MalformedStrings :
          ParseOAuth2PermissionId(s).err = "MalformedIdentifier"
    /\ \A p \in Procs :
          (op[p] \in {"read", "delete", "import"} /\ d[p].Id \in MalformedIds)
          => /\ pc[p] = "done"
             /\ err[p] \in {"ParseFailed", "MalformedIdentifier"}
             /\ trace[p] = <<>>
             /\ \A k \in LockKeys : locks[k] # p

C18_Witness ==
    \E p, q \in Procs :
        /\ op[p] = "delete" /\ pc[p] = "done" /\ err[p] = "ParseFailed"
        /\ d[p].Id = <<"a", Delimiter>>
        /\ op[q] = "import" /\ pc[q] = "done" /\ err[q] = "MalformedIdentifier"
        /\ d[q].Id = <<"a">>
        /\ trace[p] = <<>> /\ trace[q] = <<>>

\* no other goroutine is between lock and return on that Application
NoneInBody(p, objectId) ==
    \A q \in Procs \ {p} : ~(InBody(q) /\ id[q].ObjectId = objectId)

\* C19: operations on different Applications do not block each other: a
\* goroutine that waits for the lock of its Application can take it unless
\* another goroutine is between lock and return on that same Application,
\* whatever is held or awaited on other Applications, and once it has the
\* lock each of its steps up to the return can be taken.
C19_Independent ==
    \A p \in Procs :
        /\ (pc[p] = "cu_lock" /\ NoneInBody(p, id[p].ObjectId))
           => ENABLED CreateUpdateLock(p)
        /\ (pc[p] = "d_lock" /\ NoneInBody(p, id[p].ObjectId))
           => ENABLED DeleteLock(p)
        /\ pc[p] = "cu_get" => ENABLED CreateUpdateGet(p)
        /\ pc[p] = "cu_patch" => ENABLED CreateUpdatePatch(p)
        /\ pc[p] = "r_get" => ENABLED ReadGet(p)
        /\ pc[p] = "d_get" => ENABLED DeleteGet(p)
        /\ pc[p] = "d_disable" => ENABLED DeleteDisablePatch(p)
        /\ pc[p] = "d_remove" => ENABLED DeleteRemovePatch(p)

C19_Witness ==
    \E p, q \in Procs :
        /\ pc[p] = "d_get" /\ id[p].ObjectId = <<"a">>
        /\ pc[q] = "cu_patch" /\ id[q].ObjectId = <<"b">>
        /\ HoldsLock(p, <<"a">>) /\ HoldsLock(q, <<"b">>)

\* C20: a Create whose configuration names no permission id gives the
\* permission a generated one; once its patch is committed, that id is found
\* in the collection of the Application with the value of the configuration,
\* enabled as configured, and enabled when the configuration does not say.
C20_CreateGenerated ==
    \A p \in Procs :
        /\ (op[p] = "create" /\ pc[p] = "r_get" /\ d[p].permission_id = Empty)
           => LET found == OAuth2PermissionFindById(Remote(id[p].ObjectId),
                                                    id[p].PermissionId)
              IN /\ id[p].PermissionId \in PermissionIds
                 /\ found # NilPermission
                 /\ found.ID = id[p].PermissionId
                 /\ found.Value = d[p].value
                 /\ found.IsEnabled = (d[p].is_enabled # "false")
                 /\ d[p].is_enabled = Unset => found.IsEnabled
        /\ Created(p) => d[p].permission_id \in PermissionIds

C20_Witness ==
    \E p \in Procs :
        /\ op[p] = "create" /\ pc[p] = "r_get"
        /\ d[p].permission_id = Empty /\ d[p].is_enabled = Unset
        /\ OAuth2PermissionFindById(Remote(id[p].ObjectId), id[p].PermissionId).IsEnabled

\* every entry of the one collection is the entry of the other at the same
\* position, but for the entry of that id
SameButFor(coll, fetched, permissionId) ==
    /\ Len(coll) = Len(fetched)
    /\ \A i \in 1..Len(fetched) :
          fetched[i].ID # permissionId => coll[i] = fetched[i]

\* C21: when the disabling patch of a Delete went through and its removing
\* patch fails, Delete returns the error and the collection of the
\* Application still holds the permission, disabled, every other entry
\* being as Delete fetched it.
C21_PartialDelete ==
    [][\A p \in Procs :
          (/\ pc[p] = "d_remove"
           /\ pc'[p] # "d_remove"
           /\ ~trace'[p][4].ok)
          => LET o == id[p].ObjectId
                 s == id[p].PermissionId
             IN /\ pc'[p] = "done"
                /\ err'[p] = "PatchFailed"
                /\ trace'[p][3].ev = "patch" /\ trace'[p][3].ok
                /\ trace'[p][4].ev = "patch"
                /\ s \in Ids(app[p])
                /\ SameButFor(remote'[o].Oauth2Permissions, app[p], s)
                /\ \A i \in SelectIdx(app[p], s) :
                      remote'[o].Oauth2Permissions[i]
                          = [app[p][i] EXCEPT !.IsEnabled = FALSE]
      ]_vars

C21_Witness ==
    \E p \in Procs :
        /\ op[p] = "delete" /\ pc[p] = "done" /\ err[p] = "PatchFailed"
        /\ Cardinality(Events(trace[p], "patch")) = 2
        /\ Len(Remote(TrackedId(p).ObjectId)) = 2
        /\ Disabled(Remote(TrackedId(p).ObjectId), TrackedId(p).PermissionId)

\* the collection without the entry of that id, the others in their order
Without(coll, permissionId) ==
    LET keep == {i \in 1..Len(coll) : coll[i].ID # permissionId}
        nth(n) == CHOOSE i \in keep : Cardinality({j \in keep : j < i}) = n - 1
    IN [n \in 1..Cardinality(keep) |-> coll[nth(n)]]

\* C22: a patch of Create, Update or Delete that goes through leaves the
\* other entries of the collection it fetched with their values and in
\* their order: Create appends its permission behind them, Update puts its
\* permission where the old one stood, the disabling patch of Delete changes
\* the one entry in place and its removing patch writes the fetched
\* collection without that entry.
C22_Frame ==
    [][\A p \in Procs :
          LET o == id[p].ObjectId
              s == id[p].PermissionId
              new == remote'[o].Oauth2Permissions
          IN /\ (pc[p] = "cu_patch" /\ pc'[p] = "r_get" /\ op[p] = "create")
                => /\ Len(new) = Len(app[p]) + 1
                   /\ SubSeq(new, 1, Len(app[p])) = app[p]
                   /\ new[Len(new)].ID = s
             /\ (pc[p] = "cu_patch" /\ pc'[p] = "r_get" /\ op[p] = "update")
                => /\ SameButFor(new, app[p], s)
                   /\ \A i \in SelectIdx(app[p], s) : new[i].ID = s
             /\ (pc[p] = "d_disable" /\ pc'[p] = "d_remove")
                => /\ SameButFor(new, app[p], s)
                   /\ \A i \in SelectIdx(app[p], s) : new[i].ID = s
             /\ (pc[p] = "d_remove" /\ pc'[p] = "done" /\ err'[p] = Nil)
                => new = Without(app[p], s)
      ]_vars

C22_Witness ==
    \E q \in Procs :
        /\ op[q] = "update" /\ pc[q] = "r_get"
        /\ Len(app[q]) = 2 /\ Len(Remote(id[q].ObjectId)) = 2
        /\ app[q][1].ID = id[q].PermissionId
        /\ Remote(id[q].ObjectId)[1].Value = NewValue
        /\ Remote(id[q].ObjectId)[2] = app[q][2]

\* C23: whatever Creates, Updates, Reads and Deletes have run, the
\* Application that existed exists, the one that was missing is missing, and
\* every field of an Application but its oauth2Permissions is as it was.
C23_ParentFrame ==
    /\ [remote[<<"a">>] EXCEPT !.Oauth2Permissions = <<>>] = Application(<<>>)
    /\ remote[<<"b">>] = Missing

C23_Witness ==
    \E p, q \in Procs :
        /\ op[p] = "delete" /\ pc[p] = "done" /\ err[p] = Nil
        /\ Cardinality(Events(trace[p], "patch")) = 2
        /\ Created(q)
        /\ Len(Remote(<<"a">>)) = 1

\* the collections of up to two permissions with different ids
SmallCollections ==
    LET entries == {Permission(s, e, v) : s \in PermissionIds, e \in BOOLEAN,
                                           v \in {OldValue, NewValue}}
    IN {<<>>} \cup {<<e>> : e \in entries}
       \cup {c \in {<<e, f>> : e, f \in entries} : c[1].ID # c[2].ID}

\* disabling what is disabled changes nothing, and disabling twice is
\* disabling once; a law of the function alone, the same in every state, so
\* it is evaluated in the initial states
DisableLaw ==
    \A c \in SmallCollections :
        \A s \in Ids(c) :
            LET once == OAuth2PermissionResultDisableById(c, s)
            IN /\ once.err = Nil
               /\ Disabled(c, s) => once.coll = c
               /\ OAuth2PermissionResultDisableById(once.coll, s) = once

\* C24: disable is idempotent: for the collections of up to two permissions
\* and for the collection a Delete fetched, the permission being in it,
\* disabling a disabled entry gives the collection back, and disabling the
\* disabled collection again changes nothing.
C24_DisableIdempotent ==
    /\ nops = 0 => DisableLaw
    /\ \A p \in Procs :
          pc[p] = "d_disable"
          => LET s == id[p].PermissionId
             IN /\ s \in Ids(app[p])
                /\ newPermissions[p] = OAuth2PermissionResultDisableById(app[p], s).coll
                /\ Disabled(app[p], s) => newPermissions[p] = app[p]
                /\ OAuth2PermissionResultDisableById(newPermissions[p], s).coll
                       = newPermissions[p]

C24_Witness ==
    \E p \in Procs :
        /\ pc[p] = "d_disable"
        /\ Disabled(app[p], id[p].PermissionId)
        /\ Len(app[p]) = 2
        /\ newPermissions[p] = app[p]

\* C25: with remote calls that return and fair locks, every operation that
\* was started returns and holds no lock then: a goroutine waiting for the
\* lock gets it, and the Read at the end of Create and Update, which runs
\* with the lock held, does not wait for that lock. So at no time is a
\* goroutine inside an operation for ever: again and again it is outside of
\* every operation, with no lock in its hands.
C25_Terminates ==
    \A p \in Procs :
        []<>(pc[p] \in {"idle", "done"} /\ \A k \in LockKeys : locks[k] # p)

C25_Witness ==
    \E p, q \in Procs :
        /\ op[p] = "update" /\ pc[p] = "r_get"
        /\ HoldsLock(p, id[p].ObjectId)
        /\ pc[q] = "cu_lock" /\ id[q].ObjectId = id[p].ObjectId

\* C26: when the fetch finds no Application, Read and Delete return nil:
\* Read has cleared the tracked id, Delete has issued neither of its patches,
\* and the directory is as it was.
C26_MissingParent ==
    [][\A p \in Procs :
          (/\ op[p] \in {"read", "delete"}
           /\ pc[p] \in {"r_get", "d_get"}
           /\ pc'[p] # pc[p]
           /\ ~remote[id[p].ObjectId].found)
          => /\ pc'[p] = "done"
             /\ err'[p] = Nil
             /\ op[p] = "read" => d'[p].Id = Empty
             /\ op[p] = "delete" => PatchesAt(trace'[p], 251) \cup PatchesAt(trace'[p], 264) = {}
             /\ Events(trace'[p], "patch") = {}
             /\ remote' = remote
      ]_vars

C26_Witness ==
    \E p, q \in Procs :
        /\ op[p] = "read" /\ pc[p] = "done" /\ err[p] = Nil
        /\ d[p].Id = Empty
        /\ trace[p] # <<>> /\ trace[p][1].ev = "get" /\ ~trace[p][1].ok
        /\ op[q] = "delete" /\ pc[q] = "done" /\ err[q] = Nil
        /\ TrackedId(q).ObjectId = <<"b">>
        /\ Events(trace[q], "patch") = {}

\* the lookups that answered with a user, in the order of the keys
Remaining == SelectSeq(lookups, LAMBDA r : r.found = "user")

====
